---- MODULE Spec2Model ----
(***************************************************************************)
(* nbexplode: a notebook (metadata + ordered cells, each with source,      *)
(* metadata and outputs) is exploded into a directory tree and recombined  *)
(* from it.  Model of src/nbexplode.py.                                    *)
(*                                                                         *)
(* Representation.                                                         *)
(*   dict (NotebookNode, JSON object)  a function from keys to values      *)
(*   mimebundle                        a sequence of <<mime, payload>>     *)
(*                                     pairs: a dict in insertion order,   *)
(*                                     which is the order .items() walks   *)
(*   text                              a sequence of tokens; "\n" and "\r" *)
(*                                     are tokens of their own             *)
(*   bytes                             a sequence of numbers 0..255        *)
(*   file name                         <<stem, number, suffix>>:           *)
(*                                     output1.txt = <<"output",1,".txt">> *)
(*                                     source.py   = <<"source",0,".py">>  *)
(*   directory                         a function from file names to file  *)
(*                                     contents or to directories          *)
(*   outcome of a call                 "ok" or the name of the exception   *)
(***************************************************************************)
EXTENDS Integers, Sequences, FiniteSets, TLC

\* ------------------------------------------------------------------ bounds
MaxCells == 2
MaxOutputs == 2
MaxUuids == 3

\* ------------------------------------------------------------ dict helpers
EmptyDict == [k \in {} |-> TRUE]

Pop(d, key) == [k \in (DOMAIN d) \ {key} |-> d[k]]

Put(d, key, val) == [k \in (DOMAIN d) \cup {key} |-> IF k = key THEN val ELSE d[k]]

\* F applied to v, with v computed once.
With(v, F(_)) == CHOOSE y \in {F(x) : x \in {v}} : TRUE

Range(s) == {s[i] : i \in DOMAIN s}

Last(s) == s[Len(s)]

Front(s) == SubSeq(s, 1, Len(s) - 1)

\* ---------------------------------------------------------------- json
\* Every key a JSON document of the model can hold, in sorted order.
KeyOrder == <<"collapsed", "ename", "evalue", "file_extension", "isolated",
              "language_info", "nbexplode_cell_id", "traceback">>

NestedKeys == {"language_info"}

SortedKeys(d) == SelectSeq(KeyOrder, LAMBDA k : k \in DOMAIN d)

\* json.dump(d, f, indent=2, sort_keys=True): the members in key order.
JsonFlat(d) == [i \in 1..Len(SortedKeys(d)) |->
                  <<SortedKeys(d)[i], d[SortedKeys(d)[i]]>>]

json_dump(d) == [i \in 1..Len(SortedKeys(d)) |->
                  LET k == SortedKeys(d)[i]
                  IN  <<k, IF k \in NestedKeys THEN JsonFlat(d[k]) ELSE d[k]>>]

JsonUnflat(doc) == [k \in {doc[i][1] : i \in DOMAIN doc} |->
                      LET i == CHOOSE j \in DOMAIN doc : doc[j][1] = k
                      IN  doc[i][2]]

\* json.load(f): the object the members denote.
json_load(doc) == [k \in {doc[i][1] : i \in DOMAIN doc} |->
                     LET i == CHOOSE j \in DOMAIN doc : doc[j][1] = k
                     IN  IF k \in NestedKeys THEN JsonUnflat(doc[i][2]) ELSE doc[i][2]]

\* ---------------------------------------------------------------- text
\* f.read() of a file opened in text mode: universal newlines turn "\r\n"
\* and a lone "\r" into "\n".
RECURSIVE read_text(_)
read_text(s) ==
    IF s = <<>> THEN <<>>
    ELSE IF s[1] = "\r"
         THEN IF Len(s) >= 2 /\ s[2] = "\n"
              THEN <<"\n">> \o read_text(SubSeq(s, 3, Len(s)))
              ELSE <<"\n">> \o read_text(Tail(s))
         ELSE <<s[1]>> \o read_text(Tail(s))

\* str.splitlines() of a sequence file: the tokens between line ends; each
\* line is itself a sequence of tokens.
RECURSIVE SplitAt(_, _, _)
SplitAt(s, sep, cur) ==
    IF s = <<>> THEN <<cur>>
    ELSE IF s[1] = sep THEN <<cur>> \o SplitAt(Tail(s), sep, <<>>)
         ELSE SplitAt(Tail(s), sep, Append(cur, s[1]))

splitlines(s) ==
    LET parts == SplitAt(read_text(s), "\n", <<>>)
    IN  IF Last(parts) = <<>> THEN Front(parts) ELSE parts

\* for l in seq: f.write(l + '\n')
RECURSIVE write_lines(_)
write_lines(lines) ==
    IF lines = <<>> THEN <<>>
    ELSE lines[1] \o <<"\n">> \o write_lines(Tail(lines))

\* -------------------------------------------------------------- base64
Alphabet == <<"A","B","C","D","E","F","G","H","I","J","K","L","M","N","O","P",
              "Q","R","S","T","U","V","W","X","Y","Z","a","b","c","d","e","f",
              "g","h","i","j","k","l","m","n","o","p","q","r","s","t","u","v",
              "w","x","y","z","0","1","2","3","4","5","6","7","8","9","+","/">>

B64Value(c) == (CHOOSE i \in DOMAIN Alphabet : Alphabet[i] = c) - 1

RECURSIVE DecodeGroups(_)
DecodeGroups(s) ==
    IF s = <<>> THEN <<>>
    ELSE LET n == ((B64Value(s[1]) * 64 + B64Value(s[2])) * 64
                     + B64Value(s[3])) * 64 + B64Value(s[4])
         IN  <<n \div 65536, (n \div 256) % 256, n % 256>>
               \o DecodeGroups(SubSeq(s, 5, Len(s)))

\* base64.b64decode(data): characters outside the alphabet are discarded,
\* what is left must be whole groups of four (the model's payloads carry no
\* "=" padding).
B64Clean(s) == SelectSeq(s, LAMBDA c : c \in Range(Alphabet))

b64decode_ok(s) == Len(B64Clean(s)) % 4 = 0

b64decode(s) == DecodeGroups(B64Clean(s))

RECURSIVE b64encode(_)
b64encode(b) ==
    IF b = <<>> THEN <<>>
    ELSE LET n == (b[1] * 256 + b[2]) * 256 + b[3]
         IN  <<Alphabet[(n \div 262144) + 1], Alphabet[((n \div 4096) % 64) + 1],
               Alphabet[((n \div 64) % 64) + 1], Alphabet[(n % 64) + 1]>>
               \o b64encode(SubSeq(b, 4, Len(b)))

\* ------------------------------------------------------------ mime table
_mime_to_ext == [m \in {"text/plain", "text/html", "text/latex", "image/png", "image/jpeg"} |->
                  CASE m = "text/plain" -> ".txt"
                    [] m = "text/html"  -> ".html"
                    [] m = "text/latex" -> ".tex"
                    [] m = "image/png"  -> ".png"
                    [] m = "image/jpeg" -> ".jpg"]

\* The part of a mime-type string that startswith() inspects.
MimePrefix(m) ==
    CASE m \in {"image/png", "image/jpeg"} -> "image/"
      [] m = "application/x-unknown"       -> "application/"
      [] OTHER                             -> "other"

_is_binary(mime) == MimePrefix(mime) \in {"image/", "application/", "audio"}

\* sorted(...) of mime-type strings.
MimeOrder == <<"application/x-unknown", "image/jpeg", "image/png",
               "text/html", "text/latex", "text/plain">>

BundleKeys(data) == {data[j][1] : j \in DOMAIN data}

BundleGet(data, m) == data[CHOOSE j \in DOMAIN data : data[j][1] = m][2]

SortedMimes(data) == SelectSeq(MimeOrder, LAMBDA m : m \in BundleKeys(data))

\* ", ".join(seq)
RECURSIVE Join(_)
Join(seq) ==
    IF seq = <<>> THEN <<>>
    ELSE IF Len(seq) = 1 THEN <<seq[1]>>
         ELSE <<seq[1], ", ">> \o Join(Tail(seq))

\* '%d' % n and int(s), on the one-token numerals.
Digits == <<"0", "1", "2", "3", "4", "5", "6", "7", "8", "9">>

IntToStr(n) == Digits[n + 1]

StrToInt(s) == (CHOOSE j \in DOMAIN Digits : Digits[j] = s) - 1

\* ------------------------------------------------------------ file names
MetadataJson == <<"metadata", 0, ".json">>

CellsSequence == <<"cells_sequence", 0, "">>

OutputsSequence == <<"outputs_sequence", 0, "">>

CellDir(cell_id) == <<cell_id, 0, "">>

SourceFile(ext) == <<"source", 0, ext>>

EmptyDir == [k \in {} |-> <<>>]

\* str(uuid4()): the n-th identifier minted; no two calls return the same.
Uuids == <<"u1", "u2", "u3", "u4", "u5", "u6", "u7", "u8", "u9", "u10", "u11", "u12">>

\* ------------------------------------------------------------ explode_output
\* Faulty variant of write_bundle: a mime-type without a table entry is skipped.
RECURSIVE write_bundle_drop(_, _, _)
write_bundle_drop(items, cell_dir, i) ==
    IF items = <<>> THEN [status |-> "ok", cell_dir |-> cell_dir]
    ELSE LET mimetype == items[1][1]
             data     == items[1][2]
         IN  IF mimetype \notin DOMAIN _mime_to_ext
             THEN write_bundle_drop(Tail(items), cell_dir, i)
             ELSE LET file == <<"output", i, _mime_to_ext[mimetype]>>
                  IN  IF _is_binary(mimetype)
                      THEN IF b64decode_ok(data)
                           THEN write_bundle_drop(Tail(items),
                                                  Put(cell_dir, file, b64decode(data)), i)
                           ELSE [status |-> "binascii.Error",
                                 cell_dir |-> Put(cell_dir, file, <<>>)]
                      ELSE write_bundle_drop(Tail(items), Put(cell_dir, file, data), i)

\* Lines 41-48: one file per entry of the mimebundle, in the dict's order.
RECURSIVE write_bundle(_, _, _)
write_bundle(items, cell_dir, i) ==
    IF items = <<>> THEN [status |-> "ok", cell_dir |-> cell_dir]
    ELSE LET mimetype == items[1][1]
             data     == items[1][2]
         IN  IF mimetype \notin DOMAIN _mime_to_ext
             THEN [status |-> "KeyError", cell_dir |-> cell_dir]
             ELSE LET file == <<"output", i, _mime_to_ext[mimetype]>>
                  IN  IF _is_binary(mimetype)
                      THEN IF b64decode_ok(data)
                           THEN write_bundle(Tail(items), Put(cell_dir, file, b64decode(data)), i)
                           ELSE [status |-> "binascii.Error",
                                 cell_dir |-> Put(cell_dir, file, <<>>)]
                      ELSE write_bundle(Tail(items), Put(cell_dir, file, data), i)

\* output.pop('output_type') on an output that has the key.
pop_output_type(output) == Pop(output, "output_type")

\* explode_output(output, cell_dir, i): the outcome, the cell directory and
\* the output object after the call, and the descriptor returned.
explode_output(output, cell_dir, i) ==
    IF "output_type" \notin DOMAIN output
    THEN [status |-> "KeyError", cell_dir |-> cell_dir, output |-> output, ret |-> <<>>]
    ELSE
    LET optype == output.output_type
        out1   == pop_output_type(output)
    IN  CASE optype = "stream" ->
               [status |-> "ok",
                cell_dir |-> Put(cell_dir, <<"output", i, ".txt">>, output.text),
                output |-> out1, ret |-> <<output.name>>]
          [] optype = "error" ->
               [status |-> "ok",
                cell_dir |-> Put(cell_dir, <<"error", i, ".json">>, json_dump(out1)),
                output |-> out1, ret |-> <<"error">>]
          [] optype \in {"execute_result", "display_data"} ->
               LET dir1      == Put(cell_dir, <<"output", i, "-metadata.json">>,
                                    json_dump(output.metadata))
                   mimetypes == Join(SortedMimes(output.data))
               IN  With(write_bundle(output.data, dir1, i), LAMBDA w :
                     [status |-> w.status, cell_dir |-> w.cell_dir, output |-> out1,
                      ret |-> IF optype = "execute_result"
                              THEN mimetypes \o <<" ", "(", IntToStr(output.execution_count), ")">>
                              ELSE mimetypes])

\* Lines 90-94: the outputs of one cell, numbered from 1.
RECURSIVE explode_outputs(_, _, _, _)
explode_outputs(outputs, cell_dir, output_counter, outputs_seq) ==
    IF output_counter > Len(outputs)
    THEN [status |-> "ok", cell_dir |-> cell_dir, outputs |-> outputs,
          outputs_seq |-> outputs_seq]
    ELSE With(explode_output(outputs[output_counter], cell_dir, output_counter), LAMBDA r :
           LET outs1 == [outputs EXCEPT ![output_counter] = r.output]
           IN  IF r.status # "ok"
               THEN [status |-> r.status, cell_dir |-> r.cell_dir, outputs |-> outs1,
                     outputs_seq |-> outputs_seq]
               ELSE explode_outputs(outs1, r.cell_dir, output_counter + 1,
                                    Append(outputs_seq, r.ret)))

\* ------------------------------------------------------------------ explode
\* Lines 62-65: the identifier found in the metadata, else a fresh one.
cell_id_of(cell, next) ==
    IF "nbexplode_cell_id" \in DOMAIN cell.metadata
    THEN cell.metadata.nbexplode_cell_id
    ELSE Uuids[next]

\* Line 63: the metadata object after the identifier has been looked up.
metadata_after_lookup(metadata) == Pop(metadata, "nbexplode_cell_id")

\* Faulty variant of mkdir_fails: mkdir(exist_ok=True).
mkdir_exist_ok(directory, cell_id) == FALSE

\* Line 70, cell_dir.mkdir(): raises FileExistsError when the name is taken.
mkdir_fails(directory, cell_id) == CellDir(cell_id) \in DOMAIN directory

\* Faulty variant of has_outputs: the test is for the key alone.
has_outputs_key(cell) == "outputs" \in DOMAIN cell

\* Line 87, cell.get('outputs'): the cell has the key and the list is not empty.
has_outputs(cell) == "outputs" \in DOMAIN cell /\ cell.outputs # <<>>

\* Lines 62-98, the body of the loop for one cell: the outcome, the
\* directory and the cell object after it, the identifier and the number of
\* identifiers minted so far.
explode_cell(nb_metadata, cell, directory, next) ==
    LET has_id  == "nbexplode_cell_id" \in DOMAIN cell.metadata
        cell_id == cell_id_of(cell, next)
        next1   == IF has_id THEN next ELSE next + 1
        cell1   == [cell EXCEPT !.metadata = metadata_after_lookup(cell.metadata)]
        res(st, dir, c) == [status |-> st, directory |-> dir, cell |-> c,
                            cell_id |-> cell_id, next |-> next1]
    IN  IF mkdir_fails(directory, cell_id)
        THEN res("FileExistsError", directory, cell1)
        ELSE IF cell.cell_type \notin {"markdown", "raw"}
                /\ "language_info" \notin DOMAIN nb_metadata
        THEN res("AttributeError", Put(directory, CellDir(cell_id), EmptyDir), cell1)
        ELSE
        LET source_file == CASE cell.cell_type = "markdown" -> SourceFile(".md")
                             [] cell.cell_type = "raw"      -> SourceFile(".txt")
                             [] OTHER -> SourceFile(nb_metadata.language_info.file_extension)
            d1 == Put(EmptyDir, source_file, cell.source)
            d2 == IF cell1.metadata # EmptyDict
                  THEN Put(d1, MetadataJson, json_dump(cell1.metadata))
                  ELSE d1
        IN  IF ~has_outputs(cell)
            THEN res("ok", Put(directory, CellDir(cell_id), d2), cell1)
            ELSE With(explode_outputs(cell.outputs, d2, 1, <<>>), LAMBDA r :
                   LET c2 == [cell1 EXCEPT !.outputs = r.outputs]
                       d3 == IF r.status = "ok"
                             THEN Put(r.cell_dir, OutputsSequence, write_lines(r.outputs_seq))
                             ELSE r.cell_dir
                   IN  res(r.status, Put(directory, CellDir(cell_id), d3), c2))

\* Lines 60-98: the loop over the cells.
RECURSIVE explode_cells(_, _, _, _, _)
explode_cells(nbnode, directory, k, cell_ids, next) ==
    IF k > Len(nbnode.cells)
    THEN [status |-> "ok", directory |-> directory, nbnode |-> nbnode,
          cell_ids |-> cell_ids, next |-> next]
    ELSE With(explode_cell(nbnode.metadata, nbnode.cells[k], directory, next), LAMBDA r :
           LET nb1 == [nbnode EXCEPT !.cells[k] = r.cell]
           IN  IF r.status # "ok"
               THEN [status |-> r.status, directory |-> r.directory, nbnode |-> nb1,
                     cell_ids |-> Append(cell_ids, <<r.cell_id>>), next |-> r.next]
               ELSE explode_cells(nb1, r.directory, k + 1,
                                  Append(cell_ids, <<r.cell_id>>), r.next))

\* Lines 101-103.
write_cells_sequence(directory, cell_ids) ==
    Put(directory, CellsSequence, write_lines(cell_ids))

\* Faulty variant of explode: cells_sequence is written on every exit path.
explode_always_lists(nbnode, directory, next) ==
    LET d0 == Put(directory, MetadataJson, json_dump(nbnode.metadata))
    IN  With(explode_cells(nbnode, d0, 1, <<>>, next), LAMBDA r :
          [status |-> r.status,
           directory |-> write_cells_sequence(r.directory, r.cell_ids),
           nbnode |-> r.nbnode, next |-> r.next])

\* explode(nbnode, directory): the outcome, the directory and the notebook
\* object after the call, and the number of identifiers minted so far.
explode(nbnode, directory, next) ==
    LET d0 == Put(directory, MetadataJson, json_dump(nbnode.metadata))
    IN  With(explode_cells(nbnode, d0, 1, <<>>, next), LAMBDA r :
          [status |-> r.status,
           directory |-> IF r.status = "ok"
                         THEN write_cells_sequence(r.directory, r.cell_ids)
                         ELSE r.directory,
           nbnode |-> r.nbnode, next |-> r.next])

\* --------------------------------------------------------- recombine_output
\* A string held as one token; a run of several tokens is some other string.
AsString(tokens) ==
    IF tokens = <<>> THEN ""
    ELSE IF Len(tokens) = 1 THEN tokens[1] ELSE "<other>"

OneChar == {" ", "(", ")", "\n", "\r"} \cup Range(Digits) \cup Range(Alphabet)

\* s[:-1]
DropLastChar(s) ==
    IF s = <<>> THEN <<>>
    ELSE IF Last(s) \in OneChar THEN Front(s)
         ELSE Append(Front(s), "<truncated>")

\* _exec_result_re.search(info): r'\((\d+)\)$'
exec_result_match(info) ==
    /\ Len(info) >= 3
    /\ info[Len(info) - 2] = "("
    /\ info[Len(info) - 1] \in Range(Digits)
    /\ info[Len(info)] = ")"

\* info[:-(len(m.group(0))+1)]
strip_exec_result(info) == DropLastChar(SubSeq(info, 1, Len(info) - 3))

\* info.split(", ")
split_mimetypes(info) ==
    LET parts == SplitAt(info, ", ", <<>>)
    IN  [j \in 1..Len(parts) |-> AsString(parts[j])]

\* mimebundle[mimetype] = value
BundlePut(data, m, v) ==
    IF m \in BundleKeys(data)
    THEN [j \in DOMAIN data |-> IF data[j][1] = m THEN <<m, v>> ELSE data[j]]
    ELSE Append(data, <<m, v>>)

\* Lines 125-134: the files the descriptor names, read into a mimebundle.
RECURSIVE read_bundle(_, _, _, _)
read_bundle(mimetypes, cell_dir, i, mimebundle) ==
    IF mimetypes = <<>> THEN [status |-> "ok", data |-> mimebundle]
    ELSE LET mimetype == mimetypes[1]
         IN  IF mimetype \notin DOMAIN _mime_to_ext
             THEN [status |-> "KeyError", data |-> mimebundle]
             ELSE LET file == <<"output", i, _mime_to_ext[mimetype]>>
                  IN  IF file \notin DOMAIN cell_dir
                      THEN [status |-> "FileNotFoundError", data |-> mimebundle]
                      ELSE read_bundle(Tail(mimetypes), cell_dir, i,
                               BundlePut(mimebundle, mimetype,
                                   IF _is_binary(mimetype) THEN b64encode(cell_dir[file])
                                   ELSE read_text(cell_dir[file])))

\* recombine_output(cell_dir, i, info): the outcome and the output built.
recombine_output(cell_dir, i, info) ==
    LET fail(st) == [status |-> st, output |-> EmptyDict]
    IN
    IF info \in {<<"stdout">>, <<"stderr">>}
    THEN IF <<"output", i, ".txt">> \notin DOMAIN cell_dir
         THEN fail("FileNotFoundError")
         ELSE [status |-> "ok",
               output |-> [output_type |-> "stream", name |-> info[1],
                           text |-> read_text(cell_dir[<<"output", i, ".txt">>])]]
    ELSE IF info = <<"error">>
    THEN IF <<"error", i, ".json">> \notin DOMAIN cell_dir
         THEN fail("FileNotFoundError")
         ELSE [status |-> "ok",
               output |-> Put(json_load(cell_dir[<<"error", i, ".json">>]),
                              "output_type", "error")]
    ELSE LET m     == exec_result_match(info)
             info1 == IF m THEN strip_exec_result(info) ELSE info
             op    == IF m
                      THEN [output_type |-> "execute_result",
                            execution_count |-> StrToInt(info[Len(info) - 1]),
                            metadata |-> EmptyDict, data |-> <<>>]
                      ELSE [output_type |-> "display_data",
                            metadata |-> EmptyDict, data |-> <<>>]
             metadata_file == <<"output", i, "-metadata.json">>
         IN  With(read_bundle(split_mimetypes(info1), cell_dir, i, <<>>), LAMBDA b :
               LET op1 == [op EXCEPT !.data = b.data]
               IN  IF b.status # "ok" THEN fail(b.status)
                   ELSE [status |-> "ok",
                         output |-> IF metadata_file \in DOMAIN cell_dir
                                    THEN [op1 EXCEPT !.metadata = json_load(cell_dir[metadata_file])]
                                    ELSE op1])

\* Lines 185-186: the outputs the lines of outputs_sequence describe.
RECURSIVE recombine_outputs(_, _, _, _)
recombine_outputs(cell_dir, outputs_seq, i, outputs) ==
    IF i > Len(outputs_seq) THEN [status |-> "ok", outputs |-> outputs]
    ELSE With(recombine_output(cell_dir, i, outputs_seq[i]), LAMBDA r :
           IF r.status # "ok" THEN [status |-> r.status, outputs |-> outputs]
           ELSE recombine_outputs(cell_dir, outputs_seq, i + 1, Append(outputs, r.output)))

\* ---------------------------------------------------------------- recombine
\* The suffixes a source file of the model can carry.
Suffixes == {".md", ".txt", ".py"}

\* cell_dir.glob('source.*'): the suffixes of the matching files.
glob_source(cell_dir) == {x \in Suffixes : SourceFile(x) \in DOMAIN cell_dir}

\* list(...)[0]: the match the directory listing yields first; glob_order is
\* the order in which the file system lists the names.
first_source(cell_dir, glob_order) ==
    LET hits == SelectSeq(glob_order, LAMBDA x : x \in glob_source(cell_dir))
    IN  hits[1]

\* Lines 159-169: the cell the source file's suffix stands for.
new_cell(suffix, source) ==
    CASE suffix = ".md"  -> [cell_type |-> "markdown", source |-> source,
                             metadata |-> EmptyDict]
      [] suffix = ".txt" -> [cell_type |-> "raw", source |-> source,
                             metadata |-> EmptyDict]
      [] OTHER           -> [cell_type |-> "code", source |-> source,
                             metadata |-> EmptyDict, execution_count |-> <<>>,
                             outputs |-> <<>>]

\* Faulty variant of inject_cell_id: the identifier is not put back.
inject_cell_id_skip(metadata, cell_id) == metadata

\* Line 177: cell.metadata['nbexplode_cell_id'] = cell_id
inject_cell_id(metadata, cell_id) == Put(metadata, "nbexplode_cell_id", cell_id)

\* Lines 156-186, the body of the loop for one line of cells_sequence.
recombine_cell(directory, cell_id, glob_order) ==
    LET fail(st) == [status |-> st, cell |-> EmptyDict]
        cell_dir == IF cell_id = "" THEN directory ELSE directory[CellDir(cell_id)]
    IN
    IF cell_id # "" /\ CellDir(cell_id) \notin DOMAIN directory THEN fail("IndexError")
    ELSE IF glob_source(cell_dir) = {} THEN fail("IndexError")
    ELSE
    LET suffix == first_source(cell_dir, glob_order)
        cell0  == new_cell(suffix, read_text(cell_dir[SourceFile(suffix)]))
        cell1  == IF MetadataJson \in DOMAIN cell_dir
                  THEN [cell0 EXCEPT !.metadata = json_load(cell_dir[MetadataJson])]
                  ELSE cell0
        cell2  == [cell1 EXCEPT !.metadata = inject_cell_id(cell1.metadata, cell_id)]
    IN  IF OutputsSequence \notin DOMAIN cell_dir
        THEN [status |-> "ok", cell |-> cell2]
        ELSE With(recombine_outputs(cell_dir, splitlines(cell_dir[OutputsSequence]), 1, <<>>),
                  LAMBDA r :
                    IF r.status # "ok" THEN fail(r.status)
                    ELSE [status |-> "ok", cell |-> Put(cell2, "outputs", r.outputs)])

RECURSIVE recombine_cells(_, _, _, _, _)
recombine_cells(directory, cells_sequence, k, cells, glob_order) ==
    IF k > Len(cells_sequence) THEN [status |-> "ok", cells |-> cells]
    ELSE With(recombine_cell(directory, AsString(cells_sequence[k]), glob_order), LAMBDA r :
           IF r.status # "ok" THEN [status |-> r.status, cells |-> cells]
           ELSE recombine_cells(directory, cells_sequence, k + 1,
                                Append(cells, r.cell), glob_order))

\* What a call that raised returns: nothing.
NoNotebook == [metadata |-> EmptyDict, cells |-> <<>>]

\* recombine(directory): the outcome and the notebook returned.
recombine(directory, glob_order) ==
    IF MetadataJson \notin DOMAIN directory
    THEN [status |-> "FileNotFoundError", nb |-> NoNotebook]
    ELSE IF CellsSequence \notin DOMAIN directory
    THEN [status |-> "FileNotFoundError", nb |-> NoNotebook]
    ELSE With(recombine_cells(directory, splitlines(directory[CellsSequence]),
                              1, <<>>, glob_order), LAMBDA r :
           IF r.status # "ok" THEN [status |-> r.status, nb |-> NoNotebook]
           ELSE [status |-> "ok",
                 nb |-> [metadata |-> json_load(directory[MetadataJson]),
                         cells |-> r.cells]])

\* ------------------------------------------------------------------- main
\* Paths are sequences of name parts: nb.ipynb.exploded is
\* <<"nb", ".ipynb", ".exploded">>.
endswith(file, suffix) ==
    /\ Len(file) >= Len(suffix)
    /\ SubSeq(file, Len(file) - Len(suffix) + 1, Len(file)) = suffix

\* Faulty variant of fresh_directory: mkdir(exist_ok=True) and no rmtree.
fresh_directory_keep(fs, directory) ==
    IF directory \in DOMAIN fs THEN fs ELSE Put(fs, directory, EmptyDir)

\* Lines 205-207: rmtree of the directory when it is there, then mkdir.
fresh_directory(fs, directory) == Put(fs, directory, EmptyDir)

\* main(argv) with args.recombine = flag and args.file = file, on the file
\* system fs: the outcome, the file system after the call, the number of
\* identifiers minted so far, and whether explode() was entered.
main(flag, file, fs, next, glob_order) ==
    IF flag
    THEN IF ~endswith(file, <<".ipynb", ".exploded">>)
         THEN [status |-> "AssertionError", fs |-> fs, next |-> next, exploded |-> FALSE]
         ELSE With(IF file \in DOMAIN fs THEN recombine(fs[file], glob_order)
                   ELSE [status |-> "FileNotFoundError", nb |-> NoNotebook], LAMBDA r :
                [status |-> r.status,
                 fs |-> IF r.status = "ok" THEN Put(fs, Front(file), r.nb) ELSE fs,
                 next |-> next, exploded |-> FALSE])
    ELSE IF ~endswith(file, <<".ipynb">>)
         THEN [status |-> "AssertionError", fs |-> fs, next |-> next, exploded |-> FALSE]
         ELSE IF file \notin DOMAIN fs
         THEN [status |-> "FileNotFoundError", fs |-> fs, next |-> next, exploded |-> FALSE]
         ELSE LET nb       == fs[file]
                  exploded == Append(file, ".exploded")
                  fs1      == fresh_directory(fs, exploded)
              IN  With(explode(nb, fs1[exploded], next), LAMBDA r :
                    [status |-> r.status, fs |-> Put(fs1, exploded, r.directory),
                     next |-> r.next, exploded |-> TRUE])

\* ------------------------------------------------------------------ inputs
FileExts == {".py", ".md", ".txt"}

NbMetadatas == {EmptyDict} \cup {[language_info |-> [file_extension |-> e]] : e \in FileExts}

CellMetadatas == {EmptyDict,
                  [collapsed |-> TRUE],
                  [nbexplode_cell_id |-> "k1"],
                  [nbexplode_cell_id |-> "k2", collapsed |-> TRUE]}

MarkdownCell(md) == [cell_type |-> "markdown", source |-> <<"#", " ", "t", "\n">>, metadata |-> md]

RawCell(md) == [cell_type |-> "raw", source |-> <<"r">>, metadata |-> md]

CodeCell(md, outs) == [cell_type |-> "code", source |-> <<"print(1)">>, metadata |-> md,
                       execution_count |-> <<1>>, outputs |-> outs]

SampleOutputs ==
    { [output_type |-> "stream", name |-> "stdout", text |-> <<"1", "\n">>],
      [output_type |-> "error", ename |-> "ZeroDivisionError", evalue |-> "division by zero",
       traceback |-> <<"line 1">>],
      [output_type |-> "display_data", metadata |-> [isolated |-> TRUE],
       data |-> << <<"text/plain", <<"fig">> >>, <<"image/png", <<"T", "W", "F", "u">> >> >>],
      [output_type |-> "display_data", metadata |-> EmptyDict, data |-> <<>>],
      [output_type |-> "display_data", metadata |-> EmptyDict,
       data |-> << <<"text/plain", <<"x">> >>, <<"application/x-unknown", <<"T", "W", "F", "u">> >> >>],
      [output_type |-> "execute_result", execution_count |-> 7, metadata |-> EmptyDict,
       data |-> << <<"text/plain", <<"2">> >> >>] }

SeqsUpTo(S, n) == UNION {[1..k -> S] : k \in 0..n}

PlainCells == {MarkdownCell(md) : md \in CellMetadatas}
                \cup {RawCell(md) : md \in CellMetadatas}
                \cup {CodeCell(md, <<>>) : md \in CellMetadatas}

\* Notebooks that vary the cells: up to MaxCells cells of every type and
\* metadata, under every notebook metadata.
CellMixNotebooks == {[metadata |-> m, cells |-> cs] :
                       m \in NbMetadatas, cs \in SeqsUpTo(PlainCells, MaxCells)}

\* Notebooks that vary the outputs: one code cell with up to MaxOutputs outputs
\* of every kind, alone or after a markdown cell.
OutputMixNotebooks ==
    {[metadata |-> [language_info |-> [file_extension |-> ".py"]],
      cells |-> pre \o <<CodeCell(EmptyDict, outs)>>] :
        pre \in {<<>>, <<MarkdownCell(EmptyDict)>>},
        outs \in SeqsUpTo(SampleOutputs, MaxOutputs) \ {<<>>}}

Notebooks == CellMixNotebooks \cup OutputMixNotebooks

\* The orders in which a directory listing can yield the source files.
GlobOrders == {<<".md", ".py", ".txt">>, <<".md", ".txt", ".py">>, <<".py", ".md", ".txt">>,
               <<".py", ".txt", ".md">>, <<".txt", ".md", ".py">>, <<".txt", ".py", ".md">>}

\* Descriptor lines a hand-edited outputs_sequence may hold.
UnknownLines == {<<"application/x-unknown">>,
                 <<"application/x-unknown", " ", "(", "7", ")">>}

\* ------------------------------------------------------------------- state
VARIABLES
    N,           \* the notebook the caller loaded, as it was before any call
    nbnode,      \* the caller's in-memory notebook object, passed to explode()
    directory,   \* the directory the first explode() writes
    status,      \* outcome of the first explode(); "none" before it
    next_uuid,   \* number of the next identifier uuid4() mints
    edited,      \* how the tree was edited by hand after explode(); "none" if not
    ret,         \* the notebook recombine() returned
    rstatus,     \* outcome of recombine(); "none" before it
    second,      \* which object the second explode() got: "recombined" or "same"
    directory2,  \* the directory the second explode() writes
    status2,     \* outcome of the second explode()
    minted2,     \* identifiers the second explode() minted
    fs,          \* the file system main() works on: path -> notebook file or tree
    last,        \* the last call of main(): its arguments, outcome, fs at entry
    shown        \* the notebook and identifier counter of the last explode() main() made

vars == <<N, nbnode, directory, status, next_uuid, edited, ret, rstatus, second,
          directory2, status2, minted2, fs, last, shown>>

apiVars == <<N, nbnode, directory, status, edited, ret, rstatus, second,
             directory2, status2, minted2>>

mainVars == <<fs, last, shown>>

EmptyFs == [p \in {} |-> <<>>]

NoCall == [status |-> "none", flag |-> FALSE, file |-> <<>>, before |-> EmptyFs]

NoShown == [valid |-> FALSE, nb |-> NoNotebook, next |-> 1]

ApiInit(nb) ==
    /\ N = nb
    /\ nbnode = nb
    /\ directory = EmptyDir
    /\ status = "none"
    /\ edited = "none"
    /\ ret = NoNotebook
    /\ rstatus = "none"
    /\ second = "none"
    /\ directory2 = EmptyDir
    /\ status2 = "none"
    /\ minted2 = 0

MainInit ==
    /\ fs = EmptyFs
    /\ last = NoCall
    /\ shown = NoShown

Init ==
    /\ \E nb \in Notebooks : ApiInit(nb)
    /\ next_uuid = 1
    /\ MainInit

\* The cell identifiers cells_sequence lists, in order.
ListedCells(dir) ==
    LET lines == splitlines(dir[CellsSequence])
    IN  [k \in 1..Len(lines) |-> AsString(lines[k])]

\* explode(nbnode, directory) into the empty directory.
Explode ==
    /\ status = "none"
    /\ \E r \in {explode(nbnode, directory, next_uuid)} :
           /\ status' = r.status
           /\ directory' = r.directory
           /\ nbnode' = r.nbnode
           /\ next_uuid' = r.next
    /\ UNCHANGED <<N, edited, ret, rstatus, second, directory2, status2, minted2, mainVars>>

CanEdit == status = "ok" /\ edited = "none" /\ rstatus = "none" /\ second = "none"

\* The user deletes the source file of a cell directory.
RemoveSource ==
    /\ CanEdit
    /\ \E id \in Range(ListedCells(directory)) :
          directory' = [directory EXCEPT ![CellDir(id)] =
                           [f \in (DOMAIN @) \ {SourceFile(x) : x \in Suffixes} |-> @[f]]]
    /\ edited' = "source removed"
    /\ UNCHANGED <<N, nbnode, status, next_uuid, ret, rstatus, second, directory2,
                   status2, minted2, mainVars>>

\* The user puts a second source file into a cell directory.
AddSource ==
    /\ CanEdit
    /\ \E id \in Range(ListedCells(directory)) :
         \E x \in Suffixes \ glob_source(directory[CellDir(id)]) :
            directory' = [directory EXCEPT ![CellDir(id)] = Put(@, SourceFile(x), <<"new">>)]
    /\ edited' = "source added"
    /\ UNCHANGED <<N, nbnode, status, next_uuid, ret, rstatus, second, directory2,
                   status2, minted2, mainVars>>

\* The user appends a descriptor line to a cell's outputs_sequence.
AddDescriptor ==
    /\ CanEdit
    /\ \E id \in Range(ListedCells(directory)) :
         \E line \in UnknownLines :
            LET cell_dir == directory[CellDir(id)]
                old == IF OutputsSequence \in DOMAIN cell_dir
                       THEN cell_dir[OutputsSequence] ELSE <<>>
            IN  directory' = [directory EXCEPT ![CellDir(id)] =
                                 Put(@, OutputsSequence, old \o line \o <<"\n">>)]
    /\ edited' = "descriptor added"
    /\ UNCHANGED <<N, nbnode, status, next_uuid, ret, rstatus, second, directory2,
                   status2, minted2, mainVars>>

\* recombine(directory), on whatever explode() left there.
Recombine ==
    /\ status # "none"
    /\ rstatus = "none"
    /\ second = "none"
    /\ \E glob_order \in GlobOrders :
         \E r \in {recombine(directory, glob_order)} :
             /\ rstatus' = r.status
             /\ ret' = r.nb
    /\ UNCHANGED <<N, nbnode, directory, status, next_uuid, edited, second, directory2,
                   status2, minted2, mainVars>>

\* explode() of the recombined notebook into a second, empty directory.
ReExplode ==
    /\ rstatus = "ok"
    /\ second = "none"
    /\ \E r \in {explode(ret, EmptyDir, next_uuid)} :
           /\ status2' = r.status
           /\ directory2' = r.directory
           /\ ret' = r.nbnode
           /\ next_uuid' = r.next
           /\ minted2' = r.next - next_uuid
    /\ second' = "recombined"
    /\ UNCHANGED <<N, nbnode, directory, status, edited, rstatus, mainVars>>

\* explode() called again on the same in-memory object, into a second, empty
\* directory.
ExplodeAgain ==
    /\ status # "none"
    /\ rstatus = "none"
    /\ edited = "none"
    /\ second = "none"
    /\ \E r \in {explode(nbnode, EmptyDir, next_uuid)} :
           /\ status2' = r.status
           /\ directory2' = r.directory
           /\ nbnode' = r.nbnode
           /\ next_uuid' = r.next
           /\ minted2' = r.next - next_uuid
    /\ second' = "same"
    /\ UNCHANGED <<N, directory, status, edited, ret, rstatus, mainVars>>

Next ==
    \/ Explode
    \/ RemoveSource
    \/ AddSource
    \/ AddDescriptor
    \/ Recombine
    \/ ReExplode
    \/ ExplodeAgain

Spec == Init /\ [][Next]_vars

\* ------------------------------------------------- the command line, main()
NbPath == <<"nb", ".ipynb">>

ExplodedPath == <<"nb", ".ipynb", ".exploded">>

Paths == {NbPath, ExplodedPath, <<"nb", ".txt">>}

\* The notebooks the user saves as nb.ipynb.
FileNotebooks ==
    {nb \in Notebooks :
        /\ Len(nb.cells) <= 1
        /\ nb.metadata = [language_info |-> [file_extension |-> ".py"]]
        /\ \A k \in DOMAIN nb.cells :
              "outputs" \in DOMAIN nb.cells[k] => Len(nb.cells[k].outputs) <= 1}

InitMain ==
    /\ ApiInit(NoNotebook)
    /\ next_uuid = 1
    /\ MainInit

\* The user saves a notebook as nb.ipynb.
WriteNotebook ==
    /\ \E nb \in FileNotebooks : fs' = Put(fs, NbPath, nb)
    /\ last' = NoCall
    /\ UNCHANGED <<apiVars, next_uuid, shown>>

\* One run of the command: main(argv).
Main ==
    /\ next_uuid <= MaxUuids
    /\ \E flag \in BOOLEAN, file \in Paths, glob_order \in GlobOrders :
         \E r \in {main(flag, file, fs, next_uuid, glob_order)} :
            /\ fs' = r.fs
            /\ next_uuid' = r.next
            /\ last' = [status |-> r.status, flag |-> flag, file |-> file,
                        before |-> IF r.status = "AssertionError" THEN fs ELSE EmptyFs]
            /\ shown' = IF r.exploded
                        THEN [valid |-> TRUE, nb |-> fs[file], next |-> next_uuid]
                        ELSE shown
    /\ UNCHANGED apiVars

NextMain ==
    \/ WriteNotebook
    \/ Main

SpecMain == InitMain /\ [][NextMain]_vars

\* ------------------------------------------------------------------ claims
\* The directory of the k-th cell cells_sequence lists.
ListedDir(dir, k) == dir[CellDir(ListedCells(dir)[k])]

\* The cell subdirectories of an exploded tree.
CellDirs(dir) == (DOMAIN dir) \ {MetadataJson, CellsSequence}

BundleMap(data) == [m \in BundleKeys(data) |-> BundleGet(data, m)]

SameOutput(o, p) ==
    /\ DOMAIN o = DOMAIN p
    /\ \A key \in DOMAIN o :
          IF key = "data" THEN BundleMap(o.data) = BundleMap(p.data) ELSE o[key] = p[key]

SameOutputs(c, d) ==
    /\ ("outputs" \in DOMAIN c) = ("outputs" \in DOMAIN d)
    /\ "outputs" \in DOMAIN c =>
          /\ Len(c.outputs) = Len(d.outputs)
          /\ \A j \in DOMAIN c.outputs : SameOutput(c.outputs[j], d.outputs[j])

SameCell(c, d) ==
    /\ c.cell_type = d.cell_type
    /\ c.source = d.source
    /\ "nbexplode_cell_id" \in DOMAIN d.metadata
    /\ Pop(c.metadata, "nbexplode_cell_id") = Pop(d.metadata, "nbexplode_cell_id")
    /\ SameOutputs(c, d)

SameNotebook(a, b) ==
    /\ a.metadata = b.metadata
    /\ Len(a.cells) = Len(b.cells)
    /\ \A k \in DOMAIN a.cells : SameCell(a.cells[k], b.cells[k])

\* C1 (as claimed): a notebook that was exploded into an empty directory and
\* recombined from the untouched tree comes back equal in notebook metadata,
\* cell order, cell types, sources, cell metadata and outputs, up to the
\* injected nbexplode_cell_id.
C1_RoundTrip ==
    (status = "ok" /\ edited = "none" /\ rstatus # "none" /\ second = "none")
        => (rstatus = "ok" /\ SameNotebook(N, ret))

\* C2: exploding the recombined notebook again succeeds, writes the same
\* cell-directory names and the same cells_sequence as the first explode, and
\* mints no identifier.
C2_IdempotentIdentity ==
    (second = "recombined" /\ edited = "none") =>
        /\ status2 = "ok"
        /\ CellDirs(directory2) = CellDirs(directory)
        /\ directory2[CellsSequence] = directory[CellsSequence]
        /\ minted2 = 0

C2_Witness ==
    /\ second = "recombined"
    /\ edited = "none"
    /\ status2 = "ok"
    /\ Len(N.cells) >= 2
    /\ \E k \in DOMAIN N.cells : "nbexplode_cell_id" \notin DOMAIN N.cells[k].metadata

\* C3 (as claimed): explode leaves the in-memory notebook it was given as it
\* was, and a second explode of the same object succeeds.
C3_NotebookUnchanged ==
    /\ status # "none" => nbnode = N
    /\ (second = "same" /\ status = "ok") => status2 = "ok"

\* C4 (as claimed): recombine fails when a listed cell directory holds no
\* source.* file or more than one.
C4_SourceCountChecked ==
    (status = "ok" /\ rstatus # "none"
       /\ \E k \in 1..Len(ListedCells(directory)) :
             Cardinality(glob_source(ListedDir(directory, k))) # 1)
        => rstatus # "ok"

UnknownMimes == Range(MimeOrder) \ DOMAIN _mime_to_ext

HasUnknownMime(nb) ==
    \E k \in DOMAIN nb.cells :
        /\ "outputs" \in DOMAIN nb.cells[k]
        /\ \E j \in DOMAIN nb.cells[k].outputs :
              LET o == nb.cells[k].outputs[j]
              IN  /\ o.output_type \in {"display_data", "execute_result"}
                  /\ BundleKeys(o.data) \cap UnknownMimes # {}

HasUnknownLine(dir) ==
    /\ CellsSequence \in DOMAIN dir
    /\ \E k \in 1..Len(ListedCells(dir)) :
          /\ CellDir(ListedCells(dir)[k]) \in DOMAIN dir
          /\ OutputsSequence \in DOMAIN ListedDir(dir, k)
          /\ \E line \in Range(splitlines(ListedDir(dir, k)[OutputsSequence])) :
                Range(line) \cap UnknownMimes # {}

\* C5: explode of a notebook with a mime-type outside the table in some
\* mimebundle raises, and recombine of a tree with such a type on some line of
\* an outputs_sequence raises and returns no notebook.
C5_UnknownMimeFails ==
    /\ (status # "none" /\ HasUnknownMime(N)) => status # "ok"
    /\ (rstatus # "none" /\ HasUnknownLine(directory))
          => (rstatus # "ok" /\ ret = NoNotebook)

C5_Witness ==
    /\ edited = "descriptor added"
    /\ HasUnknownLine(directory)
    /\ rstatus = "KeyError"

\* C6: an explode that raised has written no cells_sequence, and recombine of
\* what it left raises and returns no notebook.
C6_NoPartialSuccess ==
    /\ status \notin {"none", "ok"} =>
          /\ CellsSequence \notin DOMAIN directory
          /\ rstatus # "none" => (rstatus # "ok" /\ ret = NoNotebook)
    /\ status2 \notin {"none", "ok"} => CellsSequence \notin DOMAIN directory2

C6_Witness ==
    /\ status = "KeyError"
    /\ rstatus = "FileNotFoundError"
    /\ Cardinality(CellDirs(directory)) >= 2

UniqueCells(dir, n) ==
    LET ids == ListedCells(dir)
    IN  /\ Len(ids) = n
        /\ \A i, j \in 1..Len(ids) : i # j => ids[i] # ids[j]
        /\ \A i \in 1..Len(ids) : CellDir(ids[i]) \in DOMAIN dir
        /\ Cardinality(CellDirs(dir)) = n

\* C7: after an explode that returned, the lines of cells_sequence are
\* pairwise distinct, as many as the cells, and each names a cell
\* subdirectory of its own; also when cells of the input share an identifier.
C7_UniqueIdentifiers ==
    /\ (status = "ok" /\ edited = "none") => UniqueCells(directory, Len(N.cells))
    /\ status2 = "ok" => UniqueCells(directory2, Len(N.cells))

C7_Witness ==
    /\ status = "ok"
    /\ Len(N.cells) >= 2
    /\ \E k \in DOMAIN N.cells : "nbexplode_cell_id" \in DOMAIN N.cells[k].metadata

\* The output type a descriptor line stands for.
LineKind(line) ==
    IF line \in {<<"stdout">>, <<"stderr">>} THEN "stream"
    ELSE IF line = <<"error">> THEN "error"
    ELSE IF exec_result_match(line) THEN "execute_result"
    ELSE "display_data"

OutputsSequenceMatches ==
    \A k \in DOMAIN N.cells :
        LET cell == N.cells[k]
            n    == IF "outputs" \in DOMAIN cell THEN Len(cell.outputs) ELSE 0
            dir  == ListedDir(directory, k)
        IN  /\ (OutputsSequence \in DOMAIN dir) <=> (n >= 1)
            /\ n >= 1 =>
                  LET lines == splitlines(dir[OutputsSequence])
                  IN  /\ Len(lines) = n
                      /\ \A j \in 1..n : LineKind(lines[j]) = cell.outputs[j].output_type

\* C8 (as claimed): outputs_sequence is there exactly for the cells with
\* outputs, one line per output in order, and a cell directory without it
\* recombines to a cell whose outputs field is the empty list.
C8_AbsenceSemantics ==
    /\ (status = "ok" /\ edited = "none") => OutputsSequenceMatches
    /\ rstatus = "ok" =>
          \A k \in DOMAIN ret.cells :
              OutputsSequence \notin DOMAIN ListedDir(directory, k) =>
                  ("outputs" \in DOMAIN ret.cells[k] /\ ret.cells[k].outputs = <<>>)

\* C8 (amended): as above, but only a cell directory recombined to a code
\* cell gets the empty outputs list; one recombined to a markdown or raw cell
\* has no outputs field.
C8_AbsenceSemanticsCode ==
    /\ (status = "ok" /\ edited = "none") => OutputsSequenceMatches
    /\ rstatus = "ok" =>
          \A k \in DOMAIN ret.cells :
              OutputsSequence \notin DOMAIN ListedDir(directory, k) =>
                  IF ret.cells[k].cell_type = "code"
                  THEN "outputs" \in DOMAIN ret.cells[k] /\ ret.cells[k].outputs = <<>>
                  ELSE "outputs" \notin DOMAIN ret.cells[k]

C8_Witness ==
    /\ rstatus = "ok"
    /\ edited = "none"
    /\ \E k \in DOMAIN ret.cells :
          /\ ret.cells[k].cell_type = "code"
          /\ OutputsSequence \notin DOMAIN ListedDir(directory, k)
    /\ \E k \in DOMAIN ret.cells : ret.cells[k].cell_type # "code"

\* C9: once main() has exploded nb.ipynb, nb.ipynb.exploded holds exactly the
\* tree explode writes for that notebook into an empty directory, whatever
\* was exploded there before; and a call with the wrong suffix leaves the
\* file system as it found it.
C9_FullRegeneration ==
    /\ shown.valid =>
          /\ ExplodedPath \in DOMAIN fs
          /\ fs[ExplodedPath] = explode(shown.nb, EmptyDir, shown.next).directory
    /\ last.status = "AssertionError" => fs = last.before

C9_Witness ==
    /\ shown.valid
    /\ shown.next >= 2
    /\ last.status = "ok"
    /\ ~last.flag
    /\ CellDirs(fs[ExplodedPath]) # {}
    /\ CellDir(Uuids[1]) \notin DOMAIN fs[ExplodedPath]

\* C10 (as claimed): every cell directory explode writes holds exactly one
\* source.* file, and the cell type its suffix stands for is the cell's type.
C10_ExtensionUnambiguous ==
    (status = "ok" /\ edited = "none") =>
        \A k \in DOMAIN N.cells :
            LET found == glob_source(ListedDir(directory, k))
            IN  /\ Cardinality(found) = 1
                /\ \A x \in found : new_cell(x, <<>>).cell_type = N.cells[k].cell_type

====
